---- MODULE Spec2Model ----
(***************************************************************************)
(* Model of the Reddit comment downvoter: the Telegram command handlers,   *)
(* the BackgroundScanner worker thread (telegram_bot.py), the comment      *)
(* filter (reddit_scanner.py) and the upvote.biz client (api_client.py).   *)
(***************************************************************************)
EXTENDS Integers, Sequences, FiniteSets, TLC

(* ------------------------------------------------------------------ *)
(* Bounds of the model                                                 *)
(* ------------------------------------------------------------------ *)
MaxWorkers == 2     \* BackgroundScanner objects created by one process
MaxPosts   == 2     \* monitored posts in data.json
MaxOrders  == 2     \* downvote_comment calls made by the workers in one run
MaxCrashes == 1     \* process crashes followed by a restart
MaxFetched == 2     \* comments get_comments returns to a get_new_comments
MaxChats   == 1     \* Telegram chats that send commands
Quantum    == 30    \* seconds of a time.sleep that elapse in one step

(* ------------------------------------------------------------------ *)
(* Program constants                                                   *)
(* ------------------------------------------------------------------ *)
LedgerCap        == 1000   \* data["processed_comments"][-1000:]
ThrottleSeconds  == 2      \* time.sleep(2) after each comment
BackoffSeconds   == 30     \* time.sleep(30) in the except branch
DefaultInterval  == 60     \* settings.get("scan_interval", 60)
DefaultDownvotes == 30     \* settings.get("downvotes_per_comment", 30)
ConfigDefaultQuantity == 5 \* config.DEFAULT_DOWNVOTE_QUANTITY
MinDownvotes     == 3      \* cmd_downvotes: if num < 3
MinInterval      == 30     \* cmd_interval: if num < 30
InstantMinimum   == 3      \* cmd_downvote: max(3, int(context.args[1]))
MinQuantity      == 3      \* max(3, qty) in downvote_comment
MaxAgeSeconds    == 86400  \* age_hours > 24, age_hours = seconds / 3600
max_retries      == 2      \* _make_request

Max(a, b) == IF a >= b THEN a ELSE b

Range(s) == {s[i] : i \in 1..Len(s)}

(* s[-n:] of Python *)
LastN(s, n) == IF Len(s) <= n THEN s ELSE SubSeq(s, Len(s) - n + 1, Len(s))

(* ------------------------------------------------------------------ *)
(* Reddit: post URLs, comments, what the JSON API returns              *)
(* ------------------------------------------------------------------ *)
(* A post URL is the thread it names, written with or without a        *)
(* trailing slash; thread 0 is a URL the /add pattern does not match.  *)
Urls == {[thread |-> 0, slash |-> FALSE],
         [thread |-> 1, slash |-> FALSE],
         [thread |-> 1, slash |-> TRUE]}

(* re.match(r'https?://(www\.|old\.)?reddit\.com/r/\w+/comments/\w+')  *)
IsRedditPostUrl(url) == url.thread # 0

(* clean_url = post_url.split('?')[0].rstrip('/') *)
clean_url(url) == [url EXCEPT !.slash = FALSE]

(* str.lower() on the names of the model *)
Lower(s) ==
    CASE s \in {"Mod1", "MOD1"} -> "mod1"
      [] s = " Mod1 "           -> " mod1 "
      [] s = "Spammer"          -> "spammer"
      [] OTHER                  -> s

(* str.strip() on the names of the model *)
Strip(s) ==
    CASE s = " Mod1 " -> "Mod1"
      [] s = " mod1 " -> "mod1"
      [] s = " "      -> ""
      [] OTHER        -> s

(* The comments of the thread: A by a whitelisted author, B eligible,  *)
(* C older than 24 hours.                                              *)
CommentA == [id |-> "a", author |-> "Mod1",    age |-> 3600]
CommentB == [id |-> "b", author |-> "spammer", age |-> 7200]
CommentC == [id |-> "c", author |-> "spammer", age |-> 108000]

Ids == {"a", "b", "c"}

ThreadComments(t) ==
    IF t = 1 THEN <<CommentA, CommentB, CommentC>> ELSE <<>>

(* get_comments: the comments of the thread, or [] on any failure *)
get_comments(post_url, ok) ==
    IF ok THEN ThreadComments(clean_url(post_url).thread) ELSE <<>>

(* An age test that also skips the comment aged exactly 24 hours *)
too_old_from_24h(comment) == comment.age >= MaxAgeSeconds

(* comment.age_hours > 24, where age_hours is (time.time() -          *)
(* created_utc) / 3600 and age is that difference in seconds            *)
too_old(comment) == comment.age > MaxAgeSeconds

(* for comment in comments: the three "continue" tests, then append    *)
RECURSIVE get_new_comments_loop(_, _, _, _, _)
get_new_comments_loop(comments, i, processed_comments, whitelist_lower, new_comments) ==
    IF i > Len(comments) THEN new_comments
    ELSE LET comment == comments[i]
             skip    == \/ comment.id \in processed_comments
                        \/ Lower(comment.author) \in whitelist_lower
                        \/ too_old(comment)
         IN  get_new_comments_loop(
                 comments, i + 1, processed_comments, whitelist_lower,
                 IF skip THEN new_comments
                 ELSE Append(new_comments, comment))

(* A filter without the age test *)
get_new_comments_any_age(comments, processed_comments, whitelist) ==
    SelectSeq(comments,
              LAMBDA c : /\ c.id \notin processed_comments
                         /\ Lower(c.author)
                                \notin {Lower(u) : u \in whitelist})

(* A filter without the processed test *)
get_new_comments_unseen_or_not(comments, processed_comments, whitelist) ==
    SelectSeq(comments,
              LAMBDA c : /\ Lower(c.author)
                                \notin {Lower(u) : u \in whitelist}
                         /\ ~too_old(c))

(* get_new_comments: the filter over the fetched comments *)
get_new_comments(comments, processed_comments, whitelist) ==
    get_new_comments_loop(comments, 1, processed_comments,
                          {Lower(u) : u \in whitelist}, <<>>)

(* data/whitelist.xlsx of the repository: the cells of its first column *)
ExcelRows == {"Mod1"}

(* load_whitelist_from_excel: {u.strip().lower() for u in usernames    *)
(* if u.strip()}                                                       *)
load_whitelist_from_excel(rows) ==
    {Lower(Strip(u)) : u \in {r \in rows : Strip(r) # ""}}

(* ------------------------------------------------------------------ *)
(* upvote.biz client (api_client.py)                                   *)
(* ------------------------------------------------------------------ *)
(* What one session.get of _make_request ends with: a transport        *)
(* exception, or a response with a status code, a Content-Type that    *)
(* names text/html or not, a cf-ray header or not, and a body.         *)
Bodies == {"json_order", "json_error", "html_cf", "html_cf_denied",
           "html_doc", "html_tag", "text", "denied"}

Statuses == {200, 400, 403, 500}

Exc == [kind |-> "exc", status |-> 0, ctype_html |-> FALSE,
        cf_ray |-> FALSE, body |-> "none"]

Responses == [kind : {"resp"}, status : Statuses, ctype_html : BOOLEAN,
              cf_ray : BOOLEAN, body : Bodies]

Outcomes == Responses \cup {Exc}

(* The outcomes the worker's order calls are checked with: an accepted *)
(* order, a Cloudflare 403, a transport exception.                     *)
RespOrder == [kind |-> "resp", status |-> 200, ctype_html |-> FALSE,
              cf_ray |-> FALSE, body |-> "json_order"]
RespBlock == [kind |-> "resp", status |-> 403, ctype_html |-> TRUE,
              cf_ray |-> TRUE, body |-> "html_cf"]

LoopOutcomes == {RespOrder, RespBlock, Exc}

StartsDoctype(b)   == b \in {"html_cf", "html_cf_denied", "html_doc"}
HasHtmlTag(b)      == b \in {"html_cf", "html_cf_denied", "html_doc",
                             "html_tag"}
HasCloudflare(b)   == b \in {"html_cf", "html_cf_denied"}
HasAccessDenied(b) == b \in {"denied", "html_cf_denied"}
ParsesAsJson(b)    == b \in {"json_order", "json_error"}

(* Lines 152-246: the dictionary returned for a response. A parsed     *)
(* JSON body is returned as it is (the body's name); every other       *)
(* return is an {"error": ...} dictionary, named by its message.       *)
classify(response) ==
    LET b == response.body IN
    IF response.status = 403
    THEN IF response.ctype_html \/ StartsDoctype(b) \/ HasHtmlTag(b)
         THEN IF HasCloudflare(b) \/ response.cf_ray
              THEN "err_403_cloudflare"
              ELSE "err_403_html"
         ELSE IF ParsesAsJson(b) THEN b ELSE "err_403_rejected"
    ELSE IF response.status >= 400 THEN "err_http"
    ELSE IF HasAccessDenied(b) THEN "err_proxy_denied"
    ELSE IF response.ctype_html \/ StartsDoctype(b)
         THEN IF HasCloudflare(b) \/ response.cf_ray
              THEN "err_cloudflare"
              ELSE "err_html"
    ELSE IF ParsesAsJson(b) THEN b
    ELSE "err_invalid_json"

(* A warm-up that leaves the session unestablished when its visit     *)
(* fails                                                               *)
establish_session_unless_failed(st) ==
    IF st.session_established THEN st
    ELSE [st EXCEPT !.session_established = st.visit_ok, !.warmups = @ + 1,
                    !.failed_warmups = @ + IF st.visit_ok THEN 0 ELSE 1]

(* _establish_session: a visit of the homepage unless the session is   *)
(* established; established afterwards whether the visit failed or not *)
(* (visit_ok: the visits of this call do not raise)                    *)
establish_session(st) ==
    IF st.session_established THEN st
    ELSE [st EXCEPT !.session_established = TRUE, !.warmups = @ + 1,
                    !.failed_warmups = @ + IF st.visit_ok THEN 0 ELSE 1]

(* A loop that never breaks on a response *)
retry_attempt_never_breaks(st, out) ==
    [st EXCEPT !.requests = @ + 1, !.attempt = @ + 1,
               !.response = IF out.kind = "exc" THEN @ ELSE out,
               !.has_response = @ \/ out.kind # "exc",
               !.last_exception = @ \/ out.kind = "exc"]

(* One iteration of `for attempt in range(max_retries)`, lines 122-144 *)
RetryGoesOn(st) == ~st.done /\ st.attempt < max_retries

retry_attempt_raises(st, out) == st.attempt >= max_retries - 1

retry_attempt(st, out) ==
    LET sent == [st EXCEPT !.requests = @ + 1,
                           !.cold_requests =
                               @ + IF st.session_established THEN 0 ELSE 1]
    IN
    IF out.kind = "exc"
    THEN IF retry_attempt_raises(st, out)
         THEN [sent EXCEPT !.last_exception = TRUE, !.raised = TRUE,
                           !.done = TRUE]
         ELSE [sent EXCEPT !.last_exception = TRUE, !.attempt = @ + 1]
    ELSE IF out.status # 403
         THEN [sent EXCEPT !.response = out, !.has_response = TRUE,
                           !.done = TRUE]
         ELSE IF st.attempt < max_retries - 1
              THEN [establish_session(
                       [sent EXCEPT !.session_established = FALSE])
                    EXCEPT !.response = out, !.has_response = TRUE,
                           !.attempt = @ + 1]
              ELSE [sent EXCEPT !.response = out, !.has_response = TRUE,
                                !.attempt = @ + 1]

RECURSIVE retry_loop(_, _)
retry_loop(st, outs) ==
    IF RetryGoesOn(st) /\ st.attempt < Len(outs)
    THEN retry_loop(retry_attempt(st, outs[st.attempt + 1]), outs)
    ELSE st

(* _make_request: the session warm-up, the retry loop and the return.  *)
(* result is "raise" when the exception leaves the call.               *)
(* cold_requests counts the requests sent while session_established   *)
(* was False, failed_warmups the homepage visits that raised.          *)
make_request_visiting(session_established, outs, visit_ok) ==
    LET st0 == establish_session(
                 [session_established |-> session_established, warmups |-> 0,
                  attempt |-> 0, requests |-> 0, response |-> Exc,
                  has_response |-> FALSE, last_exception |-> FALSE,
                  raised |-> FALSE, done |-> FALSE, visit_ok |-> visit_ok,
                  failed_warmups |-> 0, cold_requests |-> 0])
        st  == retry_loop(st0, outs)
    IN  [result |-> IF st.raised THEN "raise"
                    ELSE IF ~st.has_response /\ st.last_exception THEN "raise"
                    ELSE IF ~st.has_response THEN "err_no_response"
                    ELSE classify(st.response),
         requests |-> st.requests,
         warmups |-> st.warmups,
         session_established |-> st.session_established,
         failed_warmups |-> st.failed_warmups,
         cold_requests |-> st.cold_requests]

(* _make_request with homepage visits that do not raise *)
make_request(session_established, outs) ==
    make_request_visiting(session_established, outs, TRUE)

(* 'order' in response *)
HasOrder(result) == result = "json_order"

(* downvote_comment: qty = max(3, quantity or DEFAULT_DOWNVOTE_QUANTITY) *)
downvote_quantity(quantity) ==
    Max(MinQuantity,
        IF quantity = 0 THEN ConfigDefaultQuantity ELSE quantity)

(* ------------------------------------------------------------------ *)
(* data.json (telegram_bot.py, DATA MANAGEMENT)                        *)
(* ------------------------------------------------------------------ *)
(* The document load_data returns when data.json does not exist.       *)
(* last_reset is a day number, 0 standing for the empty string.        *)
DefaultData ==
    [posts |-> <<>>, whitelist |-> {},
     downvotes_per_comment |-> DefaultDownvotes,
     scan_interval |-> DefaultInterval,
     processed_comments |-> <<>>,
     total_orders |-> 0, orders_today |-> 0, comments_downvoted |-> 0,
     last_reset |-> 0]

Chats == 1..MaxChats
Slots == 1..MaxWorkers

(* A BackgroundScanner with its thread: the fields of the object, the  *)
(* line _run_loop stands at (pc) and the locals of _run_loop. Four     *)
(* fields record what happened: attempted (the step has made its       *)
(* downvote_comment call), sent (the notifications delivered for it),  *)
(* raised (the last pass ended in the except branch), stopped_asleep   *)
(* (stop() was called while the thread was in time.sleep(interval)).   *)
IdleThread ==
    [running |-> FALSE, chat_id |-> 0, session_established |-> FALSE,
     pc |-> "none", data |-> DefaultData, posts |-> <<>>, pi |-> 1,
     whitelist |-> {}, interval |-> 0, downvotes |-> 0,
     processed_comments |-> {}, new_comments |-> <<>>, ci |-> 1,
     response |-> "none", msg |-> "none", sleepLeft |-> 0,
     attempted |-> FALSE, sent |-> 0, raised |-> FALSE,
     stopped_asleep |-> FALSE]

NoHandler == [kind |-> "none", data |-> DefaultData, chat_id |-> 0]

GwIdle == [called |-> FALSE, before |-> FALSE, outs |-> <<Exc, Exc>>,
           visit_ok |-> TRUE,
           out |-> [result |-> "none", requests |-> 0, warmups |-> 0,
                    session_established |-> FALSE, failed_warmups |-> 0,
                    cold_requests |-> 0]]

(* ------------------------------------------------------------------ *)
(* get_new_comments on its own: the inputs of a call                   *)
(* ------------------------------------------------------------------ *)
FilterIds     == {1, 2}
FilterAuthors == {"Mod1", "spammer"}
FilterAges    == {MaxAgeSeconds - 1, MaxAgeSeconds, MaxAgeSeconds + 1}
FilterComments == [id : FilterIds, author : FilterAuthors, age : FilterAges]

(* What get_comments can return: up to MaxFetched comments *)
FetchedLists == UNION {[1..n -> FilterComments] : n \in 0..MaxFetched}

(* The first column of whitelist.xlsx and data["whitelist"] *)
WhitelistSources ==
    {[excel_rows |-> {},         json_whitelist |-> {}],
     [excel_rows |-> {"MOD1"},   json_whitelist |-> {}],
     [excel_rows |-> {" Mod1 "}, json_whitelist |-> {}],
     [excel_rows |-> {},         json_whitelist |-> {"Mod1"}],
     [excel_rows |-> {},         json_whitelist |-> {"Spammer"}],
     [excel_rows |-> {"MOD1"},   json_whitelist |-> {"Spammer"}]}

(* The content of config.PROCESSED_COMMENTS_FILE, which _load_processed *)
(* reads when the RedditScanner is constructed                          *)
ProcessedFiles == {{}, FilterIds}

(* set(data["processed_comments"]) of n ids: those of ids among the    *)
(* ids of the thread, the others ids of other threads                  *)
LedgerOfSize(ids, n) ==
    ids \cup {Cardinality(FilterIds) + j : j \in 1..(n - Cardinality(ids))}

(* Every kind of comment list, against the small ledgers *)
BroadInputs ==
    {[comments |-> c, processed_comments |-> p, processed_file |-> f,
      excel_rows |-> w.excel_rows, json_whitelist |-> w.json_whitelist] :
        c \in FetchedLists, p \in SUBSET FilterIds, f \in ProcessedFiles,
        w \in WhitelistSources}

(* One comment per id, against a ledger of every size up to the cap *)
DeepInputs ==
    {[comments |-> [i \in FilterIds |->
                       [id |-> i, author |-> "spammer",
                        age |-> MaxAgeSeconds - 1]],
      processed_comments |-> LedgerOfSize(ids, n),
      processed_file |-> {},
      excel_rows |-> {}, json_whitelist |-> {}] :
        ids \in SUBSET FilterIds, n \in Cardinality(FilterIds)..LedgerCap}

FilterInputs == BroadInputs \cup DeepInputs

NoInput == [comments |-> <<>>, processed_comments |-> {},
            processed_file |-> {}, excel_rows |-> {}, json_whitelist |-> {}]

(* The call: its inputs (given), the RedditScanner object and the      *)
(* processed file as they are now, the whitelist passed and the list   *)
(* returned                                                            *)
SelInput(given) ==
    [pc |-> "input", given |-> given,
     scanner |-> [processed_comments |-> given.processed_comments],
     processed_file |-> given.processed_file,
     whitelist |-> {}, new_comments |-> <<>>]

SelIdle == [SelInput(NoInput) EXCEPT !.pc = "none"]

(* A get_new_comments that starts with self._load_processed() *)
scanner_get_new_comments_reloading(self, processed_file, comments, whitelist) ==
    [self |-> [self EXCEPT !.processed_comments = processed_file],
     processed_file |-> processed_file,
     ret |-> get_new_comments(comments, processed_file, whitelist)]

(* RedditScanner.get_new_comments as a method: the object and the      *)
(* processed file after the call, and the list returned                *)
scanner_get_new_comments(self, processed_file, comments, whitelist) ==
    [self |-> self,
     processed_file |-> processed_file,
     ret |-> get_new_comments(comments, self.processed_comments,
                              whitelist)]

(* ------------------------------------------------------------------ *)
(* Operator commands and order requests on their own                   *)
(* ------------------------------------------------------------------ *)
(* context.args[i]: missing, a text int() rejects, or the text of an   *)
(* integer                                                             *)
NoArg   == [kind |-> "none", value |-> 0]
TextArg == [kind |-> "text", value |-> 0]
IntArgs == {[kind |-> "int", value |-> n] :
                n \in {-1, 0, 2, 3, 4, 29, 30, 31}}
Args    == {NoArg, TextArg} \cup IntArgs

(* The url argument of /downvote: not a Reddit URL, a post, a comment  *)
TargetUrls == {"invalid", "post", "comment"}

(* is_comment, service_id = 8 if is_comment else 1 *)
service_of(url) == IF url = "comment" THEN 8 ELSE 1

(* The last command or call: what it answered and the order request it *)
(* sent, if it sent one                                                *)
NoOp == [cmd |-> "none", reply |-> "none", sent |-> FALSE, service |-> 0,
         quantity |-> 0, arg |-> "none"]

Answer(cmd, reply) == [NoOp EXCEPT !.cmd = cmd, !.reply = reply]

(* add_order(service_id, link, quantity): the request it sends *)
add_order(cmd, service_id, quantity) ==
    [cmd |-> cmd, reply |-> "none", sent |-> TRUE, service |-> service_id,
     quantity |-> quantity, arg |-> "none"]

(* downvote_comment(comment_url, quantity) *)
downvote_comment(cmd, quantity) ==
    add_order(cmd, 8, downvote_quantity(quantity))

(* A settings command that accepts every number *)
below_minimum_never(num, minimum) == FALSE

(* if num < 3 / if num < 30 *)
below_minimum(num, minimum) == num < minimum

(* save_data and load_data side by side: nothing of it has run *)
IoIdle == [pre |-> DefaultData, post |-> DefaultData, chunks |-> 0,
           written |-> -1, read |-> "none"]

(* ------------------------------------------------------------------ *)
(* What <post>.json answers with, and get_comments over it             *)
(* ------------------------------------------------------------------ *)
MaxChildren == 2
MaxDepth    == 1

(* A JSON value of the answer. kind is the 'kind' of a dict ("t1" for  *)
(* a comment, "Listing", "more"), "list" for a JSON array, and         *)
(* "absent", "null" or "empty" for a 'replies' key that is missing,    *)
(* null or the string "". sub holds the children of a Listing, the     *)
(* items of an array and, for a comment, its 'replies' value.          *)
Node(kind, id, author, sub) ==
    [kind |-> kind, id |-> id, author |-> author, sub |-> sub]

Marker(kind)      == Node(kind, "", "", <<>>)
More              == Node("more", "", "", <<>>)
Listing(children) == Node("Listing", "", "", children)
JsonList(items)   == Node("list", "", "", items)
T1(id, author, replies) == Node("t1", id, author, <<replies>>)

NodeSeqs(S) == UNION {[1..n -> S] : n \in 0..MaxChildren}

(* Comments without replies: one that is recorded, one without an id,  *)
(* one deleted, and a "load more" stub                                 *)
LeafNodes ==
    {T1("b", "spammer", Marker("absent")),
     T1("", "spammer", Marker("null")),
     T1("c", "[deleted]", Marker("empty")),
     More}

(* Comments that have replies: recorded, deleted, without an id *)
ParentHeads == {<<"a", "Mod1">>, <<"a", "[deleted]">>, <<"", "spammer">>}

RECURSIVE ReplyNodes(_)
ReplyNodes(depth) ==
    IF depth = 0 THEN LeafNodes
    ELSE ReplyNodes(depth - 1) \cup
         {T1(p[1], p[2], Listing(c)) :
              p \in ParentHeads, c \in NodeSeqs(ReplyNodes(depth - 1))}

(* The comment trees of a thread *)
CommentListings == {Listing(c) : c \in NodeSeqs(ReplyNodes(MaxDepth))}

(* RedditComment(id=..., author=..., created_utc=...) of a t1 node *)
RedditComment(node) ==
    [id |-> node.id, author |-> node.author, age |-> CommentB.age]

(* A test that records deleted comments too *)
is_recorded_with_deleted(comment) == comment.id # ""

(* if comment.id and comment.author != '[deleted]' *)
is_recorded(comment) == comment.id # "" /\ comment.author # "[deleted]"

(* if replies and replies != "" and isinstance(replies, (dict, list)) *)
has_replies(replies) ==
    /\ replies.kind \notin {"absent", "null", "empty"}
    /\ replies.kind = "list" => replies.sub # <<>>

(* _extract_comments(data, comments): the list after the call *)
RECURSIVE extract_comments(_, _)
RECURSIVE extract_each(_, _, _)
extract_each(items, i, comments) ==
    IF i > Len(items) THEN comments
    ELSE extract_each(items, i + 1, extract_comments(items[i], comments))

extract_comments(data, comments) ==
    IF data.kind = "t1"
    THEN LET comment  == RedditComment(data)
             recorded == IF is_recorded(comment)
                         THEN Append(comments, comment) ELSE comments
             replies  == data.sub[1]
         IN  IF has_replies(replies)
             THEN extract_comments(replies, recorded) ELSE recorded
    ELSE IF data.kind \in {"Listing", "list"}
    THEN extract_each(data.sub, 1, comments)
    ELSE comments

(* What session.get, raise_for_status and response.json() come to:    *)
(* exc is the exception session.get raises ("none" when it returns),   *)
(* status the status code, json_ok whether the body parses, data the   *)
(* parsed body                                                         *)
Fetched(exc, status, json_ok, data) ==
    [exc |-> exc, status |-> status, json_ok |-> json_ok, data |-> data]

(* [post_data, comments_listing] *)
PostAnswer(listing) == JsonList(<<Listing(<<>>), listing>>)

(* The exception the try block of get_comments ends with *)
fetch_exception(response) ==
    IF response.exc # "none" THEN response.exc
    ELSE IF response.status >= 400 THEN "HTTPError"
    ELSE IF ~response.json_ok THEN "JSONDecodeError"
    ELSE "none"

(* Handlers that catch the connection errors only *)
is_caught_connection_only(exception) ==
    exception \in {"ConnectionError", "Timeout"}

(* except (requests.ConnectionError, requests.Timeout) and except      *)
(* Exception: every exception of the try block is an Exception         *)
is_caught(exception) ==
    \/ exception \in {"ConnectionError", "Timeout"}
    \/ exception \in {"TooManyRedirects", "HTTPError", "JSONDecodeError"}

(* get_comments(post_url): the list it returns, or that it raises *)
scanner_get_comments(response) ==
    LET exception == fetch_exception(response)
        data      == response.data
    IN  IF exception # "none"
        THEN [comments |-> <<>>, raised |-> ~is_caught(exception)]
        ELSE [comments |->
                  IF data.kind = "list" /\ Len(data.sub) > 1
                  THEN extract_comments(data.sub[2], <<>>)
                  ELSE extract_comments(data, <<>>),
              raised |-> FALSE]

(* No get_comments call *)
FetchIdle ==
    [pc |-> "idle", response |-> Fetched("none", 200, TRUE, Marker("null")),
     comments |-> <<>>, raised |-> FALSE, before |-> DefaultData]

VARIABLES
    patched,           \* fix_bug.py has been applied to telegram_bot.py
    fileExists,        \* data.json exists
    file,              \* the document in data.json
    today,             \* date.today()
    scanner_instance,  \* the global: 0 for None, else the slot of the object
    th,                \* the BackgroundScanner objects and their threads
    h,                 \* the command handler between its load and its save
    ordersSent,        \* per comment id, the downvote_comment calls made
    saved,             \* ids whose step has run save_data since the last start
    savedThenCrashed,  \* ids whose step ran save_data before a crash
    crashes,           \* crashes so far
    resetDone,         \* a pass has persisted the daily reset today
    gw,                \* a _make_request call on its own: inputs and outcome
    sel,               \* a get_new_comments call on its own
    op,                \* an operator command or order request on its own
    io,                \* a save_data with a load_data running beside it
    fetch              \* a get_comments call on its own and the pass over it

vars == <<patched, fileExists, file, today, scanner_instance, th, h,
          ordersSent, saved, savedThenCrashed, crashes, resetDone, gw, sel,
          op, io, fetch>>

(* load_data *)
load_data == IF fileExists THEN file ELSE DefaultData

(* reset_daily_stats_if_needed: the document after it, saved or not *)
NeedsReset(data) == data.last_reset # today

reset_daily_stats(data) ==
    IF NeedsReset(data)
    THEN [data EXCEPT !.orders_today = 0, !.last_reset = today]
    ELSE data

(* A whitelist that leaves the data.json list out *)
get_full_whitelist_excel_only(rows, data) ==
    load_whitelist_from_excel(rows)

(* get_full_whitelist: excel_wl | json_wl *)
get_full_whitelist(rows, data) ==
    load_whitelist_from_excel(rows) \cup {Lower(u) : u \in data.whitelist}

(* A guard that never sees the running scanner *)
IsRunningNever == FALSE

(* scanner_instance and scanner_instance.running *)
IsRunning == scanner_instance # 0 /\ th[scanner_instance].running

TotalOrders == ordersSent["a"] + ordersSent["b"] + ordersSent["c"]

Alive(w) == th[w].pc \notin {"none", "done"}

(* The slots of the objects the process has not created yet *)
FreeSlots == {w \in Slots : th[w].pc = "none"}

(* The slot of the next object, 0 when the model has no slot left *)
FirstFree ==
    IF FreeSlots = {} THEN 0
    ELSE CHOOSE w \in FreeSlots : \A v \in FreeSlots : w <= v

(* BackgroundScanner.start(chat_id): False and nothing done when the   *)
(* object is running, else the thread is created and started           *)
start(self, chat_id) ==
    IF self.running
    THEN [self |-> self, ret |-> FALSE]
    ELSE [self |-> [self EXCEPT !.running = TRUE, !.chat_id = chat_id,
                                !.pc = "while"],
          ret |-> TRUE]

(* scanner_instance = BackgroundScanner(sync_send) followed by         *)
(* scanner_instance.start(chat_id), as cmd_start_monitor, cmd_add and  *)
(* the start button do it                                              *)
new_scanner(chat_id) ==
    IF FirstFree = 0
    THEN [scanner_instance |-> scanner_instance, th |-> th]
    ELSE [scanner_instance |-> FirstFree,
          th |-> [th EXCEPT ![FirstFree] = start(IdleThread, chat_id).self]]

Init ==
    /\ patched \in BOOLEAN
    /\ fileExists = FALSE
    /\ file = DefaultData
    /\ today = 1
    /\ scanner_instance = 0
    /\ th = [w \in Slots |-> IdleThread]
    /\ h = NoHandler
    /\ ordersSent = [i \in Ids |-> 0]
    /\ saved = {}
    /\ savedThenCrashed = {}
    /\ crashes = 0
    /\ resetDone = FALSE
    /\ gw = GwIdle
    /\ sel = SelIdle
    /\ op = NoOp
    /\ io = IoIdle
    /\ fetch = FetchIdle

Ghosts == <<ordersSent, saved, savedThenCrashed, crashes, resetDone, gw,
            sel, op, io, fetch>>
Env == <<patched, today>>

(* ------------------------------------------------------------------ *)
(* Command handlers (they run one at a time on the event loop)         *)
(* ------------------------------------------------------------------ *)
(* cmd_add up to data = load_data() and the duplicate check: the text *)
(* it answers with when it returns there                               *)
add_rejection(url) ==
    IF ~IsRedditPostUrl(url) THEN "invalid_url"
    ELSE IF url \in Range(load_data.posts) THEN "already_monitored"
    ELSE "none"

cmd_add_load(url, chat_id) ==
    /\ h.kind = "none"
    /\ IF add_rejection(url) # "none"
       THEN h' = h
       ELSE /\ Len(load_data.posts) < MaxPosts
            /\ h' = [kind |-> "add", chat_id |-> chat_id,
                     data |-> [load_data EXCEPT !.posts = Append(@, url)]]
    /\ UNCHANGED <<fileExists, file, scanner_instance, th, Env, Ghosts>>

(* cmd_add from save_data(data) on: the auto-start *)
cmd_add_save ==
    /\ h.kind = "add"
    /\ file' = h.data
    /\ fileExists' = TRUE
    /\ IF ~IsRunning
       THEN /\ FreeSlots # {}
            /\ scanner_instance' = new_scanner(h.chat_id).scanner_instance
            /\ th' = new_scanner(h.chat_id).th
       ELSE UNCHANGED <<scanner_instance, th>>
    /\ h' = NoHandler
    /\ UNCHANGED <<Env, Ghosts>>

(* cmd_start_monitor: its reply, and the scanner it leaves *)
start_monitor(chat_id) ==
    IF IsRunning
    THEN [reply |-> "already_running",
          scanner_instance |-> scanner_instance, th |-> th]
    ELSE IF load_data.posts = <<>>
    THEN [reply |-> "no_posts",
          scanner_instance |-> scanner_instance, th |-> th]
    ELSE [reply |-> "started",
          scanner_instance |-> new_scanner(chat_id).scanner_instance,
          th |-> new_scanner(chat_id).th]

cmd_start_monitor(chat_id) ==
    /\ h.kind = "none"
    /\ start_monitor(chat_id).reply = "started" => FreeSlots # {}
    /\ scanner_instance' = start_monitor(chat_id).scanner_instance
    /\ th' = start_monitor(chat_id).th
    /\ UNCHANGED <<fileExists, file, h, Env, Ghosts>>

(* cmd_stop_monitor with BackgroundScanner.stop: the flag is cleared   *)
(* and the join gives up after its timeout, the thread alive or not.   *)
cmd_stop_monitor ==
    /\ h.kind = "none"
    /\ th' = IF IsRunning
             THEN [th EXCEPT ![scanner_instance].running = FALSE,
                             ![scanner_instance].stopped_asleep =
                                 (th[scanner_instance].pc = "sleep")]
             ELSE th
    /\ UNCHANGED <<fileExists, file, scanner_instance, h, Env, Ghosts>>

(* ------------------------------------------------------------------ *)
(* BackgroundScanner._run_loop                                         *)
(* ------------------------------------------------------------------ *)
(* An action is a stretch of _run_loop with at most one access to what *)
(* the threads share (data.json, self.running, the ordering service);  *)
(* pc names the access the thread makes next.                          *)
(*                                                                     *)
(* The locals of _run_loop are assigned again before they are read in  *)
(* the next pass; the model forgets them where the code stops reading  *)
(* them. The fields of the object are kept.                            *)
ClearLocals(t) ==
    [IdleThread EXCEPT !.running = t.running, !.chat_id = t.chat_id,
                       !.session_established = t.session_established,
                       !.pc = t.pc, !.raised = t.raised,
                       !.stopped_asleep = t.stopped_asleep]

(* An except branch that ends the thread *)
except_branch_exits(t) ==
    [ClearLocals(t) EXCEPT !.pc = "done", !.raised = TRUE]

(* except Exception as e: print, time.sleep(30), and the loop goes on *)
except_branch(t) ==
    [ClearLocals(t) EXCEPT !.pc = "backoff", !.sleepLeft = BackoffSeconds,
                           !.raised = TRUE, !.attempted = t.attempted,
                           !.sent = t.sent]

(* while self.running: data = load_data() *)
PassBegin(w) ==
    /\ th[w].pc = "while"
    /\ th' = [th EXCEPT ![w] =
            IF th[w].running
            THEN [ClearLocals(@) EXCEPT !.data = load_data, !.pc = "setup"]
            ELSE [ClearLocals(@) EXCEPT !.raised = FALSE,
                                        !.stopped_asleep = FALSE,
                                        !.pc = "done"]]
    /\ UNCHANGED <<fileExists, file, scanner_instance, h, Env, Ghosts>>

(* The read of `whitelist` in the print of line 127: the name is bound *)
(* only by line 129, which fix_bug.py moves before the print.          *)
WhitelistReadRaises == ~patched

(* reset_daily_stats_if_needed(data) to the assignment of              *)
(* self.scanner.processed_comments                                     *)
PassSetup(w) ==
    LET t      == th[w]
        resets == NeedsReset(t.data)
        data   == reset_daily_stats(t.data)
        ondisk == IF resets THEN data ELSE load_data
    IN  /\ t.pc = "setup"
        /\ file' = IF resets THEN data ELSE file
        /\ fileExists' = (fileExists \/ resets)
        /\ th' = [th EXCEPT ![w] =
                IF WhitelistReadRaises
                THEN except_branch(t)
                ELSE [t EXCEPT !.data = DefaultData,
                               !.raised = FALSE,
                               !.posts = data.posts,
                               !.whitelist =
                                   get_full_whitelist(ExcelRows, ondisk),
                               !.interval = data.scan_interval,
                               !.downvotes = data.downvotes_per_comment,
                               !.processed_comments =
                                   Range(data.processed_comments),
                               !.pi = 1,
                               !.pc = "post"]]
        /\ resetDone' = (resetDone \/ resets)
        /\ UNCHANGED <<scanner_instance, h, Env, ordersSent, saved,
                       savedThenCrashed, crashes, gw, sel, op, io, fetch>>

(* for comment in new_comments: if not self.running: break -- the head *)
(* of the inner loop at comment ci; the post is done when it breaks or *)
(* runs out of comments.                                               *)
comment_head(t, ci) ==
    IF ci > Len(t.new_comments) \/ ~t.running
    THEN [t EXCEPT !.new_comments = <<>>, !.ci = 1, !.pi = @ + 1,
                   !.pc = "post"]
    ELSE [t EXCEPT !.ci = ci, !.pc = "order"]

(* for post_url in posts: if not self.running: break; get_new_comments *)
(* of the post and the head of the inner loop; after the outer loop    *)
(* time.sleep(interval)                                                *)
PassPost(w, ok) ==
    LET t == th[w] IN
    /\ t.pc = "post"
    /\ th' = [th EXCEPT ![w] =
            IF t.pi > Len(t.posts) \/ ~t.running
            THEN [ClearLocals(t) EXCEPT !.pc = "sleep",
                                        !.sleepLeft = t.interval]
            ELSE comment_head(
                   [t EXCEPT !.new_comments =
                        get_new_comments(get_comments(t.posts[t.pi], ok),
                                         t.processed_comments, t.whitelist)],
                   1)]
    /\ UNCHANGED <<fileExists, file, scanner_instance, h, Env, Ghosts>>

(* response = self.api.downvote_comment(comment.full_url, downvotes) *)
PassOrder(w, outs) ==
    LET t   == th[w]
        id  == t.new_comments[t.ci].id
        out == make_request(t.session_established, outs)
        t1  == [t EXCEPT !.session_established = out.session_established,
                         !.attempted = TRUE, !.sent = 0]
    IN  /\ t.pc = "order"
        /\ TotalOrders < MaxOrders
        /\ ordersSent' = [ordersSent EXCEPT ![id] = @ + 1]
        /\ th' = [th EXCEPT ![w] =
                IF out.result = "raise"
                THEN except_branch(t1)
                ELSE [t1 EXCEPT !.response = out.result, !.pc = "reload"]]
            /\ UNCHANGED <<fileExists, file, scanner_instance, h, Env,
                       saved, savedThenCrashed, crashes, resetDone, gw,
                       sel, op, io, fetch>>

(* data = load_data() of line 149 *)
PassReload(w) ==
    /\ th[w].pc = "reload"
    /\ th' = [th EXCEPT ![w].data = load_data, ![w].pc = "save"]
    /\ UNCHANGED <<fileExists, file, scanner_instance, h, Env, Ghosts>>

(* data["processed_comments"].append(comment.id) and the [-1000:] *)
append_processed(processed_comments, id) ==
    LastN(Append(processed_comments, id), LedgerCap)

(* A step that counts an order whatever the response was *)
step_document_counts_always(data, response, id) ==
    [data EXCEPT !.total_orders = @ + 1,
                 !.orders_today = @ + 1,
                 !.comments_downvoted = @ + 1,
                 !.processed_comments = append_processed(@, id)]

(* Lines 150-160: the counters, the ledger, the document saved *)
step_document(data, response, id) ==
    LET counted == IF HasOrder(response)
                   THEN [data EXCEPT !.total_orders = @ + 1,
                                     !.orders_today = @ + 1,
                                     !.comments_downvoted = @ + 1]
                   ELSE data
    IN  [counted EXCEPT !.processed_comments = append_processed(@, id)]

PassSave(w) ==
    LET t  == th[w]
        id == t.new_comments[t.ci].id
    IN  /\ t.pc = "save"
        /\ file' = step_document(t.data, t.response, id)
        /\ fileExists' = TRUE
        /\ saved' = saved \cup {id}
        /\ th' = [th EXCEPT ![w] =
                [t EXCEPT !.data = DefaultData,
                          !.msg = IF HasOrder(t.response) THEN "DOWNVOTED"
                                                          ELSE "FAILED",
                          !.pc = "notify"]]
            /\ UNCHANGED <<scanner_instance, h, Env, ordersSent,
                       savedThenCrashed, crashes, resetDone, gw, sel,
                       op, io, fetch>>

(* if self.send_message and self.chat_id: self.send_message(...), then *)
(* time.sleep(2). sync_send swallows every exception of its send, so   *)
(* the message is delivered or silently dropped.                       *)
PassNotify(w, delivered) ==
    LET t == th[w] IN
    /\ t.pc = "notify"
    /\ th' = [th EXCEPT ![w] =
            [t EXCEPT !.sent = IF t.chat_id # 0 /\ delivered THEN 1 ELSE 0,
                      !.msg = "none", !.response = "none",
                      !.pc = "throttle", !.sleepLeft = ThrottleSeconds]]
    /\ UNCHANGED <<fileExists, file, scanner_instance, h, Env, Ghosts>>

Sleeping == {"throttle", "sleep", "backoff"}

(* Quantum seconds of a time.sleep go by *)
Sleep(w) ==
    /\ th[w].pc \in Sleeping
    /\ th[w].sleepLeft > 0
    /\ th' = [th EXCEPT ![w].sleepLeft = Max(0, @ - Quantum)]
    /\ UNCHANGED <<fileExists, file, scanner_instance, h, Env, Ghosts>>

(* time.sleep returns: the next comment after the throttle, the top of *)
(* the while loop after the interval and after the backoff             *)
Wake(w) ==
    LET t == [th[w] EXCEPT !.attempted = FALSE, !.sent = 0] IN
    /\ t.pc \in Sleeping
    /\ t.sleepLeft = 0
    /\ th' = [th EXCEPT ![w] =
            IF t.pc = "throttle"
            THEN comment_head(t, t.ci + 1)
            ELSE [t EXCEPT !.pc = "while"]]
    /\ UNCHANGED <<fileExists, file, scanner_instance, h, Env, Ghosts>>

(* ------------------------------------------------------------------ *)
(* Environment                                                         *)
(* ------------------------------------------------------------------ *)
(* The process dies and is started again: data.json is all that stays *)
CrashRestart ==
    /\ crashes < MaxCrashes
    /\ crashes' = crashes + 1
    /\ th' = [w \in Slots |-> IdleThread]
    /\ scanner_instance' = 0
    /\ h' = NoHandler
    /\ savedThenCrashed' = savedThenCrashed \cup saved
    /\ saved' = {}
    /\ UNCHANGED <<fileExists, file, Env, ordersSent, resetDone, gw, sel,
                   op, io, fetch>>

Next ==
    \/ \E url \in Urls, c \in Chats : cmd_add_load(url, c)
    \/ cmd_add_save
    \/ \E c \in Chats : cmd_start_monitor(c)
    \/ cmd_stop_monitor
    \/ \E w \in Slots : PassBegin(w)
    \/ \E w \in Slots : PassSetup(w)
    \/ \E w \in Slots, ok \in BOOLEAN : PassPost(w, ok)
    \/ \E w \in Slots, a0, a1 \in LoopOutcomes : PassOrder(w, <<a0, a1>>)
    \/ \E w \in Slots : PassReload(w)
    \/ \E w \in Slots : PassSave(w)
    \/ \E w \in Slots, delivered \in BOOLEAN : PassNotify(w, delivered)
    \/ \E w \in Slots : Sleep(w)
    \/ \E w \in Slots : Wake(w)
    \/ CrashRestart

Spec == Init /\ [][Next]_vars

(* ------------------------------------------------------------------ *)
(* _make_request on its own, over every pair of attempt outcomes       *)
(* ------------------------------------------------------------------ *)
GwCall(before, outs) ==
    /\ gw' = [called |-> TRUE, before |-> before, outs |-> outs,
              visit_ok |-> TRUE, out |-> make_request(before, outs)]
    /\ UNCHANGED <<patched, fileExists, file, today, scanner_instance, th, h,
                   ordersSent, saved, savedThenCrashed, crashes, resetDone,
                   sel, op, io, fetch>>

NextGateway ==
    /\ ~gw.called
    /\ \E before \in BOOLEAN, a0, a1 \in Outcomes :
            GwCall(before, <<a0, a1>>)

SpecGateway == Init /\ [][NextGateway]_vars

(* _make_request on its own, with homepage visits that raise or not *)
GwCallVisiting(before, outs, visit_ok) ==
    /\ gw' = [called |-> TRUE, before |-> before, outs |-> outs,
              visit_ok |-> visit_ok,
              out |-> make_request_visiting(before, outs, visit_ok)]
    /\ UNCHANGED <<patched, fileExists, file, today, scanner_instance, th, h,
                   ordersSent, saved, savedThenCrashed, crashes, resetDone,
                   sel, op, io, fetch>>

NextWarmup ==
    /\ ~gw.called
    /\ \E before \in BOOLEAN, a0, a1 \in Outcomes, visit_ok \in BOOLEAN :
            GwCallVisiting(before, <<a0, a1>>, visit_ok)

SpecWarmup == Init /\ [][NextWarmup]_vars

(* ------------------------------------------------------------------ *)
(* Properties of the Dispatch Loop                                     *)
(* ------------------------------------------------------------------ *)
(* get_new_comments on its own                                         *)
(* ------------------------------------------------------------------ *)
InitFilter ==
    /\ patched = TRUE
    /\ fileExists = FALSE
    /\ file = DefaultData
    /\ today = 1
    /\ scanner_instance = 0
    /\ th = [w \in Slots |-> IdleThread]
    /\ h = NoHandler
    /\ ordersSent = [i \in Ids |-> 0]
    /\ saved = {}
    /\ savedThenCrashed = {}
    /\ crashes = 0
    /\ resetDone = FALSE
    /\ gw = GwIdle
    /\ sel \in {SelInput(given) : given \in FilterInputs}
    /\ op = NoOp
    /\ io = IoIdle
    /\ fetch = FetchIdle

NotSel == <<patched, fileExists, file, today, scanner_instance, th, h,
            ordersSent, saved, savedThenCrashed, crashes, resetDone, gw,
            op, io, fetch>>

(* whitelist = get_full_whitelist(), as the pass computes it *)
FilterWhitelist ==
    /\ sel.pc = "input"
    /\ sel' = [sel EXCEPT
                 !.pc = "whitelist",
                 !.whitelist =
                     get_full_whitelist(
                         sel.given.excel_rows,
                         [DefaultData EXCEPT
                              !.whitelist = sel.given.json_whitelist])]
    /\ UNCHANGED NotSel

(* The call with a whitelist *)
FilterCall(pc, whitelist) ==
    LET r == scanner_get_new_comments(sel.scanner, sel.processed_file,
                                      sel.given.comments, whitelist)
    IN  /\ sel' = [sel EXCEPT !.pc = pc,
                              !.whitelist = whitelist,
                              !.scanner = r.self,
                              !.processed_file = r.processed_file,
                              !.new_comments = r.ret]
        /\ UNCHANGED NotSel

(* new_comments = scanner.get_new_comments(post_url, whitelist) with   *)
(* the whitelist of the pass                                           *)
FilterSelect ==
    /\ sel.pc = "whitelist"
    /\ FilterCall("selected", sel.whitelist)

(* get_new_comments called with the names as the two sources write     *)
(* them, in any letter case                                            *)
FilterSelectRaw ==
    /\ sel.pc = "input"
    /\ FilterCall("selected_raw",
                  sel.given.excel_rows \cup sel.given.json_whitelist)

NextFilter == FilterWhitelist \/ FilterSelect \/ FilterSelectRaw

SpecFilter == InitFilter /\ [][NextFilter]_vars

(* ------------------------------------------------------------------ *)
(* The settings commands and everything that sends an order request    *)
(* ------------------------------------------------------------------ *)
NotOp == <<patched, today, scanner_instance, th, h, ordersSent, saved,
           savedThenCrashed, crashes, resetDone, gw, sel, io, fetch>>

(* A settings command: /downvotes and /interval differ in the key and  *)
(* the minimum only                                                    *)
settings_command(cmd, arg, minimum, data) ==
    IF arg.kind = "none"
    THEN [reply |-> "usage", data |-> data, saves |-> FALSE]
    ELSE IF arg.kind = "text"
    THEN [reply |-> "error_number", data |-> data, saves |-> FALSE]
    ELSE IF below_minimum(arg.value, minimum)
    THEN [reply |-> "error_minimum", data |-> data, saves |-> FALSE]
    ELSE [reply |-> "set",
          data |-> IF cmd = "downvotes"
                   THEN [data EXCEPT !.downvotes_per_comment = arg.value]
                   ELSE [data EXCEPT !.scan_interval = arg.value],
          saves |-> TRUE]

(* /downvotes [number] *)
cmd_downvotes(arg) ==
    LET r == settings_command("downvotes", arg, MinDownvotes, load_data)
    IN  /\ op' = Answer("downvotes", r.reply)
        /\ file' = IF r.saves THEN r.data ELSE file
        /\ fileExists' = (fileExists \/ r.saves)
        /\ UNCHANGED NotOp

(* /interval [seconds] *)
cmd_interval(arg) ==
    LET r == settings_command("interval", arg, MinInterval, load_data)
    IN  /\ op' = Answer("interval", r.reply)
        /\ file' = IF r.saves THEN r.data ELSE file
        /\ fileExists' = (fileExists \/ r.saves)
        /\ UNCHANGED NotOp

(* /downvote <reddit_url> [quantity]: the quantity it orders *)
instant_quantity(arg, data) ==
    IF arg.kind = "int" THEN Max(InstantMinimum, arg.value)
    ELSE data.downvotes_per_comment

(* An instant order counted for the day and the comments only *)
count_instant_order_not_in_total(data, url) ==
    [data EXCEPT !.orders_today = @ + 1,
                 !.comments_downvoted = IF url = "comment" THEN @ + 1 ELSE @]

(* Lines 433-437: the counters of an accepted /downvote order *)
count_instant_order(data, url) ==
    [data EXCEPT !.total_orders = @ + 1,
                 !.orders_today = @ + 1,
                 !.comments_downvoted = IF url = "comment" THEN @ + 1 ELSE @]

(* /downvote: usage without arguments, an error for a URL that is not  *)
(* Reddit's, else add_order and, when the order is accepted, the       *)
(* counters reloaded, raised and saved                                 *)
cmd_downvote(url, arg, accepted) ==
    LET data    == load_data
        request == add_order("downvote", service_of(url),
                             instant_quantity(arg, data))
        counted == count_instant_order(data, url)
    IN  /\ data.total_orders < MaxOrders
        /\ IF url = "none"
           THEN op' = Answer("downvote", "usage")
                    /\ UNCHANGED <<file, fileExists>>
           ELSE IF url = "invalid"
           THEN op' = Answer("downvote", "error_url")
                    /\ UNCHANGED <<file, fileExists>>
           ELSE /\ op' = [request EXCEPT
                            !.reply = IF accepted THEN "order_placed"
                                                  ELSE "error"]
                /\ file' = IF accepted THEN counted ELSE file
                /\ fileExists' = (fileExists \/ accepted)
        /\ UNCHANGED NotOp

(* The loop's order for a reply: downvote_comment(comment.full_url,    *)
(* downvotes) with the downvotes setting of the pass                   *)
LoopOrder ==
    /\ op' = downvote_comment("loop", load_data.downvotes_per_comment)
    /\ UNCHANGED <<file, fileExists>>
    /\ UNCHANGED NotOp

(* add_order called with a quantity, as place_order.py calls it *)
DirectOrder(arg) ==
    /\ op' = add_order("add_order", 1, arg.value)
    /\ UNCHANGED <<file, fileExists>>
    /\ UNCHANGED NotOp

NextOrders ==
    \/ \E arg \in Args : cmd_downvotes(arg)
    \/ \E arg \in Args : cmd_interval(arg)
    \/ \E url \in TargetUrls \cup {"none"}, arg \in Args,
          accepted \in BOOLEAN : cmd_downvote(url, arg, accepted)
    \/ LoopOrder
    \/ \E arg \in IntArgs : DirectOrder(arg)

SpecOrders == Init /\ [][NextOrders]_vars

(* ------------------------------------------------------------------ *)
(* /whitelist and /unwhitelist on their own                            *)
(* ------------------------------------------------------------------ *)
(* context.args[0] of the two commands: names written bare and with    *)
(* the u/ prefix                                                       *)
WhitelistArgs == {"Mod1", "u/Mod1", "spammer", "u/spammer", "Spammer",
                  "user1", "u/user1", "Ultra", "u/Ultra"}

(* str.lstrip('u/') on the arguments: every leading character that is *)
(* a 'u' or a '/' is removed, as many as there are                     *)
lstrip_u_slash(s) ==
    CASE s = "u/Mod1"              -> "Mod1"
      [] s = "u/spammer"           -> "spammer"
      [] s \in {"user1", "u/user1"} -> "ser1"
      [] s = "u/Ultra"             -> "Ultra"
      [] OTHER                     -> s

(* str.lower() on what lstrip_u_slash leaves *)
lower_name(s) ==
    CASE s = "Ultra" -> "ultra"
      [] OTHER       -> Lower(s)

(* username = context.args[0].lstrip('u/').lower() *)
username_of(arg) == lower_name(lstrip_u_slash(arg))

(* cmd_whitelist after the usage test: the reply and the document *)
whitelist_command(arg, data) ==
    LET username == username_of(arg) IN
    IF username \in {lower_name(u) : u \in data.whitelist}
    THEN [reply |-> "already_whitelisted", data |-> data, saves |-> FALSE]
    ELSE IF username \in load_whitelist_from_excel(ExcelRows)
    THEN [reply |-> "already_in_excel", data |-> data, saves |-> FALSE]
    ELSE [reply |-> "added",
          data |-> [data EXCEPT !.whitelist = @ \cup {username}],
          saves |-> TRUE]

(* cmd_unwhitelist after the usage test: the first entry whose lower() *)
(* is the username is removed                                          *)
unwhitelist_command(arg, data) ==
    LET username == username_of(arg)
        found    == {u \in data.whitelist : lower_name(u) = username}
    IN  IF found # {}
        THEN [reply |-> "removed",
              data |-> [data EXCEPT
                          !.whitelist = @ \ {CHOOSE u \in found : TRUE}],
              saves |-> TRUE]
        ELSE IF username \in load_whitelist_from_excel(ExcelRows)
        THEN [reply |-> "in_excel", data |-> data, saves |-> FALSE]
        ELSE [reply |-> "not_found", data |-> data, saves |-> FALSE]

cmd_whitelist(arg) ==
    LET r == whitelist_command(arg, load_data) IN
    /\ op' = [Answer("whitelist", r.reply) EXCEPT !.arg = arg]
    /\ file' = IF r.saves THEN r.data ELSE file
    /\ fileExists' = (fileExists \/ r.saves)
    /\ UNCHANGED NotOp

cmd_unwhitelist(arg) ==
    LET r == unwhitelist_command(arg, load_data) IN
    /\ op' = [Answer("unwhitelist", r.reply) EXCEPT !.arg = arg]
    /\ file' = IF r.saves THEN r.data ELSE file
    /\ fileExists' = (fileExists \/ r.saves)
    /\ UNCHANGED NotOp

NextWhitelist ==
    \/ \E arg \in WhitelistArgs : cmd_whitelist(arg)
    \/ \E arg \in WhitelistArgs : cmd_unwhitelist(arg)

SpecWhitelist == Init /\ [][NextWhitelist]_vars

(* ------------------------------------------------------------------ *)
(* The writers of the counters side by side: the loop, /status and     *)
(* /downvote, over the days                                            *)
(* ------------------------------------------------------------------ *)
MaxDays == 2

(* The loop is running on one post, as after /add <post URL> *)
InitCounters ==
    /\ patched = TRUE
    /\ fileExists = TRUE
    /\ file = [DefaultData EXCEPT
                 !.posts = <<[thread |-> 1, slash |-> FALSE]>>]
    /\ today = 1
    /\ scanner_instance = 1
    /\ th = [w \in Slots |->
                IF w = 1 THEN start(IdleThread, 1).self ELSE IdleThread]
    /\ h = NoHandler
    /\ ordersSent = [i \in Ids |-> 0]
    /\ saved = {}
    /\ savedThenCrashed = {}
    /\ crashes = 0
    /\ resetDone = FALSE
    /\ gw = GwIdle
    /\ sel = SelIdle
    /\ op = NoOp
    /\ io = IoIdle
    /\ fetch = FetchIdle

(* cmd_status: data = load_data() *)
cmd_status_load ==
    /\ h.kind = "none"
    /\ h' = [kind |-> "status", chat_id |-> 0, data |-> load_data]
    /\ UNCHANGED <<fileExists, file, scanner_instance, th, Env, Ghosts>>

(* cmd_status: reset_daily_stats_if_needed(data), which saves the      *)
(* handler's copy when its last_reset is not today                     *)
cmd_status_reset ==
    /\ h.kind = "status"
    /\ file' = IF NeedsReset(h.data) THEN reset_daily_stats(h.data)
                                      ELSE file
    /\ fileExists' = (fileExists \/ NeedsReset(h.data))
    /\ h' = NoHandler
    /\ UNCHANGED <<scanner_instance, th, Env, Ghosts>>

(* cmd_downvote after an accepted order: data = load_data() of line    *)
(* 433, for a comment URL or a post URL                                *)
cmd_downvote_reload(url) ==
    /\ h.kind = "none"
    /\ load_data.total_orders < MaxOrders
    /\ h' = [kind |-> url, chat_id |-> 0, data |-> load_data]
    /\ UNCHANGED <<fileExists, file, scanner_instance, th, Env, Ghosts>>

(* cmd_downvote: the counters raised and save_data(data), line 438 *)
cmd_downvote_save ==
    /\ h.kind \in {"post", "comment"}
    /\ file' = count_instant_order(h.data, h.kind)
    /\ fileExists' = TRUE
    /\ h' = NoHandler
    /\ UNCHANGED <<scanner_instance, th, Env, Ghosts>>

(* Midnight: date.today() is the next day *)
NewDay ==
    /\ today < MaxDays
    /\ today' = today + 1
    /\ UNCHANGED <<patched, fileExists, file, scanner_instance, th, h,
                   Ghosts>>

NextCounters ==
    \/ \E w \in Slots : PassBegin(w)
    \/ \E w \in Slots : PassSetup(w)
    \/ \E w \in Slots, ok \in BOOLEAN : PassPost(w, ok)
    \/ \E w \in Slots, a0, a1 \in LoopOutcomes : PassOrder(w, <<a0, a1>>)
    \/ \E w \in Slots : PassReload(w)
    \/ \E w \in Slots : PassSave(w)
    \/ \E w \in Slots, delivered \in BOOLEAN : PassNotify(w, delivered)
    \/ \E w \in Slots : Sleep(w)
    \/ \E w \in Slots : Wake(w)
    \/ cmd_status_load
    \/ cmd_status_reset
    \/ \E url \in {"post", "comment"} : cmd_downvote_reload(url)
    \/ cmd_downvote_save
    \/ NewDay

SpecCounters == InitCounters /\ [][NextCounters]_vars

(* ------------------------------------------------------------------ *)
(* save_data of a loop step with a handler's load_data beside it       *)
(* ------------------------------------------------------------------ *)
(* open(DATA_FILE, 'w') empties data.json; json.dump then writes the   *)
(* text through the file's buffer, which reaches the file in one piece *)
(* at close for a short document and in several pieces for a long one. *)
MaxChunks == 2

(* Documents the step reloaded at line 149 *)
IoDocuments ==
    {[DefaultData EXCEPT !.processed_comments = p, !.total_orders = n,
                         !.orders_today = n, !.comments_downvoted = n] :
        p \in {<<>>, <<"a">>, <<"a", "c">>}, n \in 0..1}

InitFile ==
    /\ patched = TRUE
    /\ fileExists = TRUE
    /\ file \in IoDocuments
    /\ today = 1
    /\ scanner_instance = 0
    /\ th = [w \in Slots |-> IdleThread]
    /\ h = NoHandler
    /\ ordersSent = [i \in Ids |-> 0]
    /\ saved = {}
    /\ savedThenCrashed = {}
    /\ crashes = 0
    /\ resetDone = FALSE
    /\ gw = GwIdle
    /\ sel = SelIdle
    /\ op = NoOp
    /\ fetch = FetchIdle
    /\ \E response \in {"json_order", "err_http"}, chunks \in 1..MaxChunks :
           io = [pre |-> file, post |-> step_document(file, response, "b"),
                 chunks |-> chunks, written |-> -1, read |-> "none"]

NotIo == <<patched, fileExists, file, today, scanner_instance, th, h,
           ordersSent, saved, savedThenCrashed, crashes, resetDone, gw,
           sel, op, fetch>>

(* What is in data.json while save_data(data) of line 160 runs *)
file_content(s) ==
    IF s.written = -1 THEN "pre"
    ELSE IF s.written = 0 THEN "empty"
    ELSE IF s.written < s.chunks THEN "partial"
    ELSE "post"

(* with open(DATA_FILE, 'w') as f: the file is cut to length 0 *)
save_data_open ==
    /\ io.written = -1
    /\ io' = [io EXCEPT !.written = 0]
    /\ UNCHANGED NotIo

(* json.dump(data, f, indent=2) and the close: the next piece of the   *)
(* text reaches the file                                               *)
save_data_write ==
    /\ io.written >= 0
    /\ io.written < io.chunks
    /\ io' = [io EXCEPT !.written = @ + 1]
    /\ UNCHANGED NotIo

(* data = load_data() of a handler such as cmd_status, run on the main *)
(* thread while the worker thread saves: json.load reads the text that *)
(* is in the file now, and raises json.JSONDecodeError, which          *)
(* load_data does not catch, when that text is empty or cut short      *)
cmd_status_load_data ==
    /\ io' = [io EXCEPT !.read = file_content(io)]
    /\ UNCHANGED NotIo

NextFile ==
    \/ save_data_open
    \/ save_data_write
    \/ cmd_status_load_data

SpecFile == InitFile /\ [][NextFile]_vars

(* ------------------------------------------------------------------ *)
(* get_comments on its own, and the pass over what it returned         *)
(* ------------------------------------------------------------------ *)
(* The answers a fetch can get: the failures, every comment tree as    *)
(* the second item of the answer, and answers of another shape, which  *)
(* get_comments reads as a whole                                       *)
FetchFailures ==
    {Fetched(e, 200, TRUE, Marker("null")) :
         e \in {"ConnectionError", "Timeout", "TooManyRedirects"}}
    \cup {Fetched("none", s, TRUE, Marker("null")) : s \in Statuses \ {200}}
    \cup {Fetched("none", 200, FALSE, Marker("null"))}

FetchAnswers ==
    {Fetched("none", 200, TRUE, PostAnswer(l)) : l \in CommentListings}
    \cup {Fetched("none", 200, TRUE, d) :
              d \in {Listing(<<T1("b", "spammer", Marker("absent"))>>),
                     JsonList(<<Listing(<<T1("b", "spammer",
                                             Marker("absent"))>>)>>),
                     JsonList(<<>>), Marker("null")}}

FetchResponses == FetchFailures \cup FetchAnswers

(* data.json when the pass begins: absent, or with a ledger and counts *)
FetchDocuments ==
    {DefaultData,
     [DefaultData EXCEPT !.processed_comments = <<"c">>, !.total_orders = 1,
                         !.orders_today = 1, !.comments_downvoted = 1,
                         !.last_reset = 1]}

InitFetch ==
    /\ patched = TRUE
    /\ file \in FetchDocuments
    /\ fileExists = (file # DefaultData)
    /\ today = 1
    /\ scanner_instance = 0
    /\ th = [w \in Slots |-> IdleThread]
    /\ h = NoHandler
    /\ ordersSent = [i \in Ids |-> 0]
    /\ saved = {}
    /\ savedThenCrashed = {}
    /\ crashes = 0
    /\ resetDone = FALSE
    /\ gw = GwIdle
    /\ sel = SelIdle
    /\ op = NoOp
    /\ io = IoIdle
    /\ \E response \in FetchResponses :
           fetch = [FetchIdle EXCEPT !.pc = "input", !.response = response,
                                     !.before = file]

NotFetch == <<patched, today, scanner_instance, th, h, ordersSent, saved,
              savedThenCrashed, crashes, resetDone, gw, sel, op, io>>

(* comments = self.get_comments(post_url) *)
FetchComments ==
    LET got == scanner_get_comments(fetch.response) IN
    /\ fetch.pc = "input"
    /\ fetch' = [fetch EXCEPT !.pc = "fetched", !.comments = got.comments,
                              !.raised = got.raised]
    /\ UNCHANGED <<file, fileExists>>
    /\ UNCHANGED NotFetch

(* for comment in new_comments: the steps of lines 147-160, one after  *)
(* the other, each with the Gateway result `response`                  *)
RECURSIVE steps_document(_, _, _, _)
steps_document(data, new_comments, i, response) ==
    IF i > Len(new_comments) THEN data
    ELSE steps_document(step_document(data, response, new_comments[i].id),
                        new_comments, i + 1, response)

(* Lines 141-160 for the post: the filter over the fetched comments    *)
(* and a step for each comment it keeps                                *)
FetchPass(response) ==
    LET new_comments ==
            get_new_comments(fetch.comments, Range(load_data.processed_comments),
                             get_full_whitelist(ExcelRows, load_data))
    IN  /\ fetch.pc = "fetched"
        /\ ~fetch.raised
        /\ fetch' = [fetch EXCEPT !.pc = "done"]
        /\ file' = steps_document(load_data, new_comments, 1, response)
        /\ fileExists' = (fileExists \/ new_comments # <<>>)
        /\ UNCHANGED NotFetch

NextFetch ==
    \/ FetchComments
    \/ \E response \in {"json_order", "err_http"} : FetchPass(response)

SpecFetch == InitFetch /\ [][NextFetch]_vars

(* ------------------------------------------------------------------ *)
(* The scanner the handlers see as running *)
RunningScanner(w) == scanner_instance = w /\ th[w].running

(* The comment the thread's reply-submission step is about *)
StepId(t) == t.new_comments[t.ci].id

(* C1: over any run of passes, start and stop commands and crashes     *)
(* followed by a restart, no reply id has more than one                *)
(* downvote_comment call made for it.                                  *)
C1_OrderedAtMostOnce == \A r \in Ids : ordersSent[r] <= 1

(* C2: whenever the loop makes the downvote_comment call for a reply,  *)
(* the reply's id is not in the ledger of data.json at that moment.    *)
C2_NotInLedgerWhenOrdered ==
    [][\A r \in Ids :
          ordersSent'[r] > ordersSent[r]
              => r \notin Range(load_data.processed_comments)]_vars

(* C3: when a step reaches its notification the id is in the saved     *)
(* ledger, and an id whose step had saved before a crash is not        *)
(* ordered again after the restart.                                    *)
C3_SavedBeforeNotifyNoReorder ==
    [][/\ \A w \in Slots :
              th[w].pc = "save" /\ th'[w].pc = "notify"
                  => /\ fileExists'
                     /\ StepId(th[w]) \in Range(file'.processed_comments)
       /\ \A r \in savedThenCrashed : ordersSent'[r] = ordersSent[r]]_vars

(* C4: the ledger of data.json never exceeds LedgerCap ids, and it     *)
(* only ever changes by one id appended at its end with the oldest     *)
(* ids beyond LedgerCap dropped, so that it always is the most recent  *)
(* appended ids in append order.                                       *)
C4_LedgerIsRecentAppends ==
    [][/\ Len(load_data.processed_comments) <= LedgerCap
       /\ file'.processed_comments # load_data.processed_comments
              => \E id \in Ids :
                     file'.processed_comments =
                         LastN(Append(load_data.processed_comments, id),
                               LedgerCap)]_vars

(* C5: when the step of an order attempt is over, by its throttle      *)
(* sleep or by the except branch, exactly one notification has been    *)
(* delivered for it.                                                   *)
C5_OneNotificationPerAttempt ==
    \A w \in Slots :
        th[w].attempted /\ th[w].pc \in {"throttle", "backoff"}
            => th[w].sent = 1

(* C6: a _make_request call returns a result and never raises, for     *)
(* every pair of attempt outcomes; when both attempts end without a    *)
(* response object the result is the "No response received" error.     *)
C6_GatewayNeverRaises ==
    gw.called =>
        /\ gw.out.result # "raise"
        /\ (\A i \in 1..max_retries : gw.outs[i].kind = "exc")
               => gw.out.result = "err_no_response"

(* C7: while the scanner is running, cmd_start_monitor answers that it *)
(* is already running and leaves scanner_instance and every thread as  *)
(* they are, start() on the running object returns False and changes   *)
(* nothing, and no step of any handler creates a second scanner or     *)
(* changes the chat the running one notifies.                          *)
C7_StartWhileRunningIsNoOp ==
    /\ [](\A w \in Slots, c \in Chats :
              RunningScanner(w)
                  => /\ start_monitor(c) =
                            [reply |-> "already_running",
                             scanner_instance |-> scanner_instance,
                             th |-> th]
                     /\ start(th[w], c) = [self |-> th[w], ret |-> FALSE])
    /\ [][\A w \in Slots :
              RunningScanner(w) /\ crashes' = crashes
                  => /\ scanner_instance' = w
                     /\ th'[w].chat_id = th[w].chat_id
                     /\ \A v \in Slots :
                            th[v].pc = "none" => th'[v].pc = "none"]_vars

(* C7, its case: the second /add of a run arrived while the scanner    *)
(* started by the first was running, and no other scanner exists.      *)
C7_Witness ==
    /\ crashes = 0
    /\ RunningScanner(1)
    /\ Len(load_data.posts) = 2
    /\ th[2].pc = "none"

(* C8: once stop is requested, a step of the worker that has passed    *)
(* the loop head goes on to its order result, its reload and its save  *)
(* without being abandoned; the worker starts no further step and      *)
(* begins no further pass.                                             *)
C8_StoppedStepCompletes ==
    [][\A w \in Slots :
          ~th[w].running /\ crashes' = crashes
              => /\ th[w].pc = "order" => th'[w].pc \in {"order", "reload"}
                 /\ th[w].pc = "reload" => th'[w].pc \in {"reload", "save"}
                 /\ th[w].pc = "save" => th'[w].pc \in {"save", "notify"}
                 /\ th'[w].pc = "order" => th[w].pc = "order"
                 /\ th'[w].pc = "setup" => th[w].pc = "setup"]_vars

(* C9: a worker that is stopped while it is in time.sleep(interval)    *)
(* does not go on sleeping: the next thing it does is leave the sleep. *)
C9_StoppedSleepEnds ==
    [][\A w \in Slots :
          /\ th[w].pc = "sleep"
          /\ th[w].stopped_asleep
          /\ th'[w] # th[w]
          /\ crashes' = crashes
          => th'[w].pc # "sleep"]_vars

(* C10: an exception inside a pass takes the worker to the backoff     *)
(* sleep and nowhere else; the backoff ends at the head of the while   *)
(* loop; from there the worker begins another pass when no stop was    *)
(* requested; the thread ends only at the loop head with the flag      *)
(* cleared.                                                            *)
C10_ExceptionNeverEndsWorker ==
    [][\A w \in Slots :
          crashes' = crashes
              => /\ th'[w].raised /\ ~th[w].raised => th'[w].pc = "backoff"
                 /\ th[w].pc = "backoff"
                        => th'[w].pc \in {"backoff", "while"}
                 /\ th[w].pc = "while" /\ th[w].running /\ th'[w] # th[w]
                        => th'[w].pc = "setup" \/ ~th'[w].running
                 /\ th'[w].pc = "done" /\ th[w].pc # "done"
                        => th[w].pc = "while" /\ ~th[w].running]_vars

(* C10, its case: a worker whose last pass raised has begun a pass *)
C10_Witness ==
    \E w \in Slots :
        th[w].raised /\ th[w].running /\ th[w].pc = "setup"

(* C11: in every pass the whitelist is computed before it is read, so  *)
(* the setup of a pass (lines 124-134) never ends in the except branch *)
(* and the pass goes on to the loop over the monitored posts.          *)
C11_SetupReachesFetch ==
    [][\A w \in Slots :
          th[w].pc = "setup" /\ th'[w].pc # "setup" /\ crashes' = crashes
              => th'[w].pc = "post" /\ ~th'[w].raised]_vars

(* C12: in a pass of a running worker every reply the filter selects   *)
(* is ordered, and the outcome is persisted and notified: the setup of *)
(* the pass goes on to the posts, every downvote_comment call comes    *)
(* back with an outcome that the step then saves, and the notification *)
(* of every saved outcome is delivered.                                *)
C12_SelectedIsOrderedSavedNotified ==
    [][\A w \in Slots :
          th[w].running /\ th'[w].running /\ crashes' = crashes
              => /\ th[w].pc = "setup" => th'[w].pc \in {"setup", "post"}
                 /\ th[w].pc = "order" => th'[w].pc \in {"order", "reload"}
                 /\ th[w].pc = "save" /\ th'[w].pc = "notify"
                        => StepId(th[w]) \in Range(file'.processed_comments)
                 /\ th[w].pc = "notify" /\ th'[w].pc = "throttle"
                        => th'[w].sent = 1]_vars

(* C13: a pass over the thread (A trusted, B eligible, C stale) gets   *)
(* to its selection, and the selection is B alone while b is not in    *)
(* the pass's processed set and empty once it is; the step of B that   *)
(* got an order from the service leaves b in the saved ledger and      *)
(* total_orders one higher than before.                                *)
C13_PassSelectsOnlyB ==
    [][\A w \in Slots :
          crashes' = crashes
              => /\ th[w].pc = "setup" => th'[w].pc \in {"setup", "post"}
                 /\ th[w].pc = "post" /\ th'[w].pc = "order"
                        => /\ th'[w].new_comments = <<CommentB>>
                           /\ "b" \notin th[w].processed_comments
                 /\ th[w].pc = "save" /\ th'[w].pc = "notify"
                        /\ HasOrder(th[w].response)
                        => /\ "b" \in Range(file'.processed_comments)
                           /\ file'.total_orders
                                  = load_data.total_orders + 1]_vars

(* The get_new_comments call has returned *)
Selected == sel.pc \in {"selected", "selected_raw"}

(* C14: for every list of fetched replies, processed-id set and        *)
(* trusted-author set, get_new_comments returns exactly the replies    *)
(* whose id is not in the processed set, whose lower-cased author is   *)
(* not in the lower-cased trusted set and whose age is not greater     *)
(* than 24 hours, in the order they were fetched.                      *)
C14_SelectReturnsExactlyEligible ==
    Selected =>
        sel.new_comments =
            SelectSeq(sel.given.comments,
                      LAMBDA c :
                          /\ c.id \notin sel.given.processed_comments
                          /\ \A u \in sel.whitelist :
                                 Lower(c.author) # Lower(u)
                          /\ c.age <= MaxAgeSeconds)

(* A call that keeps one of two fetched replies, with a processed id   *)
(* and a trusted name given                                            *)
C14_Witness ==
    /\ Selected
    /\ Len(sel.given.comments) = 2
    /\ Len(sel.new_comments) = 1
    /\ sel.new_comments[1] = sel.given.comments[2]
    /\ sel.given.comments[1].age > MaxAgeSeconds
    /\ sel.given.processed_comments # {}
    /\ sel.whitelist # {}

(* C15: for any reply id already in the processed-id set given to      *)
(* get_new_comments, no reply with that id is returned, for every size *)
(* of the set from 0 up to the cap of 1000 entries.                    *)
C15_ProcessedIdNeverReturned ==
    Selected /\ Cardinality(sel.given.processed_comments) \in 0..LedgerCap
        => \A j \in 1..Len(sel.new_comments) :
               sel.new_comments[j].id \notin sel.given.processed_comments

(* A call with a full ledger that holds the id of a fetched reply,     *)
(* fresh and by an author nobody trusts, and lacks the id of another   *)
C15_Witness ==
    /\ Selected
    /\ Cardinality(sel.given.processed_comments) = LedgerCap
    /\ \E i, j \in 1..Len(sel.given.comments) :
           /\ sel.given.comments[i].id \in sel.given.processed_comments
           /\ sel.given.comments[j].id \notin sel.given.processed_comments
    /\ Len(sel.new_comments) = 1

(* C16: trust filtering ignores letter case and uses the union of the  *)
(* Excel list and the data.json list: with the whitelist the pass      *)
(* computes, a reply whose author equals, ignoring letter case, a name *)
(* in either source is never selected, so no order is made for it.     *)
C16_TrustedAuthorNeverSelected ==
    sel.pc = "selected" =>
        \A j \in 1..Len(sel.new_comments) :
            \A u \in sel.given.excel_rows \cup sel.given.json_whitelist :
                Lower(sel.new_comments[j].author) # Lower(u)

(* A pass whose two sources each hold a name in another letter case    *)
(* than the author of a fetched reply writes it; both replies are      *)
(* fresh and unseen, and neither is selected                           *)
C16_Witness ==
    /\ sel.pc = "selected"
    /\ sel.given.processed_comments = {}
    /\ Len(sel.given.comments) = 2
    /\ \A i \in 1..2 : sel.given.comments[i].age < MaxAgeSeconds
    /\ \E u \in sel.given.excel_rows :
           u # sel.given.comments[1].author
               /\ Lower(u) = Lower(sel.given.comments[1].author)
    /\ \E u \in sel.given.json_whitelist :
           u # sel.given.comments[2].author
               /\ Lower(u) = Lower(sel.given.comments[2].author)
    /\ sel.new_comments = <<>>

(* C17: a fetched reply whose age is exactly 24 hours (86400 seconds)  *)
(* is not returned by get_new_comments, and an unseen reply by an      *)
(* untrusted author that is one second younger is returned.            *)
C17_ExactlyDayOldExcluded ==
    Selected =>
        /\ \A j \in 1..Len(sel.new_comments) :
               sel.new_comments[j].age # MaxAgeSeconds
        /\ \A i \in 1..Len(sel.given.comments) :
               LET c == sel.given.comments[i]
               IN  /\ c.age = MaxAgeSeconds - 1
                   /\ c.id \notin sel.given.processed_comments
                   /\ \A u \in sel.whitelist : Lower(c.author) # Lower(u)
                   => \E j \in 1..Len(sel.new_comments) :
                          sel.new_comments[j] = c

(* C17 as the code has it: an unseen reply by an untrusted author is   *)
(* returned when its age is exactly 24 hours (86400 seconds) and when  *)
(* it is one second younger, and no reply one second older than 24     *)
(* hours is returned.                                                  *)
C17_OlderThanDayExcluded ==
    Selected =>
        /\ \A j \in 1..Len(sel.new_comments) :
               sel.new_comments[j].age # MaxAgeSeconds + 1
        /\ \A i \in 1..Len(sel.given.comments) :
               LET c == sel.given.comments[i]
               IN  /\ c.age \in {MaxAgeSeconds - 1, MaxAgeSeconds}
                   /\ c.id \notin sel.given.processed_comments
                   /\ \A u \in sel.whitelist : Lower(c.author) # Lower(u)
                   => \E j \in 1..Len(sel.new_comments) :
                          sel.new_comments[j] = c

(* A call given a reply aged exactly 24 hours and one a second older,  *)
(* both unseen and untrusted, that returns the first only              *)
C17_Witness ==
    /\ Selected
    /\ sel.given.processed_comments = {}
    /\ sel.whitelist = {}
    /\ Len(sel.given.comments) = 2
    /\ sel.given.comments[1].age = MaxAgeSeconds
    /\ sel.given.comments[2].age = MaxAgeSeconds + 1
    /\ sel.new_comments = <<sel.given.comments[1]>>

(* C18: a get_new_comments call leaves the in-memory processed-id set  *)
(* of the scanner and the persisted processed ids unchanged, and does  *)
(* not reload the set from the file: what it returns is decided by the *)
(* set the scanner held before the call.                               *)
C18_SelectLeavesDedupStateAlone ==
    Selected =>
        /\ sel.scanner.processed_comments = sel.given.processed_comments
        /\ sel.processed_file = sel.given.processed_file
        /\ file = DefaultData /\ ~fileExists
        /\ \A i \in 1..Len(sel.given.comments) :
               sel.given.comments[i].id \in sel.given.processed_comments
                   => \A j \in 1..Len(sel.new_comments) :
                          sel.new_comments[j] # sel.given.comments[i]

(* A call made while the file holds other ids than the scanner: the   *)
(* reply the scanner has seen is skipped although the file lacks it,   *)
(* and the one the file holds is returned                              *)
C18_Witness ==
    /\ Selected
    /\ sel.given.processed_comments = {1}
    /\ sel.given.processed_file = {}
    /\ Len(sel.given.comments) = 2
    /\ sel.given.comments[1].id = 1
    /\ sel.given.comments[2].id = 2
    /\ sel.new_comments = <<sel.given.comments[2]>>
    /\ sel.scanner.processed_comments = {1}

(* C19: a pass that finds a stored last-reset date other than today    *)
(* sets orders_today to 0 and last_reset to today and saves at once;   *)
(* once a pass has done so, no later pass of the same date changes the *)
(* document by the reset rule, so the reset happens once per day.      *)
C19_ResetOncePerDay ==
    [][\A w \in Slots :
          th[w].pc = "setup" /\ th'[w].pc # "setup" /\ crashes' = crashes
              => /\ NeedsReset(th[w].data)
                        => /\ fileExists'
                           /\ file'.orders_today = 0
                           /\ file'.last_reset = today
                 /\ resetDone => file' = file]_vars

(* C20: a response whose body is an HTML document with the Cloudflare  *)
(* marker is classified as a Cloudflare block, whatever its status     *)
(* code, its headers and the other text of the page; here every        *)
(* attempt of the call receives that response.                         *)
C20_MarkedHtmlIsMitigationBlock ==
    /\ gw.called
    /\ gw.outs[1].kind = "resp"
    /\ \A i \in 1..max_retries : gw.outs[i] = gw.outs[1]
    /\ StartsDoctype(gw.outs[1].body)
    /\ HasCloudflare(gw.outs[1].body)
    => gw.out.result \in {"err_403_cloudflare", "err_cloudflare"}

(* The response _make_request goes on with when every attempt of the   *)
(* call receives the same response                                     *)
SameResponse ==
    /\ gw.called
    /\ gw.outs[1].kind = "resp"
    /\ \A i \in 1..max_retries : gw.outs[i] = gw.outs[1]

(* C21: a response whose body is valid JSON is returned to the caller  *)
(* as the parsed payload, unchanged: the payload with the order id as  *)
(* the success, the payload with an error field as the rejection it    *)
(* is.                                                                 *)
C21_JsonPayloadReturnedAsIs ==
    SameResponse /\ ParsesAsJson(gw.outs[1].body)
        => gw.out.result = gw.outs[1].body

(* A response of the service that accepts the order: status below 400  *)
(* and the JSON payload with the order id                              *)
IsSuccessResponse(r) ==
    r.kind = "resp" /\ r.status < 400 /\ r.body = "json_order"

(* C22: a _make_request call sends at most 2 requests, and when the    *)
(* first attempt returned a success response no second request is      *)
(* sent.                                                               *)
C22_AtMostTwoAttemptsNoneAfterSuccess ==
    gw.called =>
        /\ gw.out.requests <= 2
        /\ IsSuccessResponse(gw.outs[1]) => gw.out.requests = 1

(* A call whose first attempt is accepted while a second attempt would *)
(* have met a Cloudflare 403, and a call that used both attempts       *)
C22_Witness ==
    /\ gw.called
    /\ gw.outs[1] = RespOrder
    /\ gw.outs[2] = RespBlock
    /\ gw.out.requests = 1
    /\ gw.out.result = "json_order"

(* The results classify gives a Cloudflare block or another HTML page  *)
BlockResults ==
    {"err_403_cloudflare", "err_403_html", "err_cloudflare", "err_html"}

(* C23: whenever the response of the first attempt is one that is      *)
(* classified as a mitigation block, with status 403 or any other, the *)
(* call resets the session, visits the homepage again and sends the    *)
(* request exactly once more.                                          *)
C23_BlockIsRewarmedAndRetriedOnce ==
    /\ gw.called
    /\ gw.outs[1].kind = "resp"
    /\ classify(gw.outs[1]) \in BlockResults
    => /\ gw.out.requests = 2
       /\ gw.out.warmups = IF gw.before THEN 1 ELSE 2

(* C24: a service-level error response that is not HTML (a JSON error  *)
(* payload, no HTML content type), with status 403 or another client   *)
(* error status, is not retried: the call sends one request and        *)
(* returns the payload as received.                                    *)
C24_RejectionNotRetriedReturnedVerbatim ==
    /\ gw.called
    /\ gw.outs[1].kind = "resp"
    /\ gw.outs[1].body = "json_error"
    /\ ~gw.outs[1].ctype_html
    /\ gw.outs[1].status \in {400, 403}
    => /\ gw.out.requests = 1
       /\ gw.out.result = "json_error"

(* C25: every order request sent to the service, by the loop through   *)
(* downvote_comment, by the /downvote command or by a direct add_order *)
(* call, carries a quantity of at least 3.                             *)
C25_EveryOrderAtLeastThree == op.sent => op.quantity >= 3

(* C26: from the absent data.json on, after any sequence of settings   *)
(* commands the stored downvotes per comment are at least 3 and the    *)
(* stored scan interval is at least 30 seconds, and a command that is  *)
(* rejected leaves the settings as they were.                          *)
C26_SettingsStayAboveMinimum ==
    /\ [](load_data.downvotes_per_comment >= 3
            /\ load_data.scan_interval >= 30)
    /\ [][op'.cmd \in {"downvotes", "interval"} /\ op'.reply # "set"
             => /\ load_data'.downvotes_per_comment
                       = load_data.downvotes_per_comment
                /\ load_data'.scan_interval = load_data.scan_interval]_vars

(* Both settings have been set to their minimum, and the last command  *)
(* asked for a smaller interval and was rejected                       *)
C26_Witness ==
    /\ fileExists
    /\ file.downvotes_per_comment = 3
    /\ file.scan_interval = 30
    /\ op.cmd = "interval"
    /\ op.reply = "error_minimum"

(* C27: an order attempt that fails, whatever the kind of failure, is  *)
(* followed in the same step by the append of the reply's id to the    *)
(* ledger, once, and the id is appended only when the attempt has been *)
(* made and its outcome is known.                                      *)
C27_FailedAttemptIsLedgered ==
    [][\A w \in Slots :
          crashes' = crashes
              => /\ th[w].pc = "order" /\ th'[w].pc # "order"
                        => th'[w].pc = "reload"
                 /\ th[w].pc = "save"
                        => th[w].attempted /\ th[w].response # "none"
                 /\ th[w].pc = "save" /\ th'[w].pc = "notify"
                        => Cardinality(
                               {i \in 1..Len(file'.processed_comments) :
                                  file'.processed_comments[i]
                                      = StepId(th[w])})
                           = 1 + Cardinality(
                               {i \in 1..Len(th[w].data.processed_comments) :
                                  th[w].data.processed_comments[i]
                                      = StepId(th[w])})]_vars

(* Counters of a document, in the order total, today, acted on *)
Counters(data) ==
    <<data.total_orders, data.orders_today, data.comments_downvoted>>

(* C28: a reply-submission step of the loop saves a document whose     *)
(* total_orders, orders_today and comments_downvoted are each exactly  *)
(* one more than in the document the step reloaded at line 149 when    *)
(* the gateway result carries an order id, and are the same as in that *)
(* document otherwise.                                                 *)
C28_StepCountsOnlyOrders ==
    [][\A w \in Slots :
          th[w].pc = "save" /\ th'[w].pc = "notify"
              => LET n == IF HasOrder(th[w].response) THEN 1 ELSE 0
                     d == th[w].data
                 IN  Counters(file') = <<d.total_orders + n,
                                         d.orders_today + n,
                                         d.comments_downvoted + n>>]_vars

(* A step has saved an order and a later step has saved a failure *)
C28_Witness ==
    \E w \in Slots :
        /\ th[w].pc = "notify" /\ th[w].msg = "FAILED"
        /\ Counters(file) = <<1, 1, 1>>

(* C29: a load_data of a request handler that runs while the loop's    *)
(* save_data is under way reads either the whole document as it was    *)
(* before the save or the whole document the save writes, never an     *)
(* empty file or a text that is cut short.                             *)
C29_ConcurrentReadSeesWholeDocument == io.read \in {"none", "pre", "post"}

(* C30: a write of the loop (the save of the daily reset at line 124   *)
(* or the save of a reply-submission step at line 160) never takes     *)
(* away what an operator command has persisted: the monitored posts in *)
(* data.json are the same after every write of the loop as before it,  *)
(* however the command's load and save fall between the loop's.        *)
C30_LoopWriteKeepsOperatorEdit ==
    [][h' = h => file'.posts = file.posts]_vars

(* The fetch met a network failure, an HTTP error status or a body     *)
(* that is not JSON                                                    *)
FetchFailed(response) ==
    \/ response.exc # "none"
    \/ response.status >= 400
    \/ ~response.json_ok

(* C31: get_comments never raises; when the request fails on the       *)
(* network, ends with an HTTP error status or returns a body that does *)
(* not parse, it returns the empty list; and a pass that got the empty *)
(* list for a post leaves data.json, and with it the ledger and the    *)
(* counters, as it was.                                                *)
C31_FetchNeverRaisesEmptyChangesNothing ==
    /\ fetch.pc \in {"fetched", "done"}
           => /\ ~fetch.raised
              /\ FetchFailed(fetch.response) => fetch.comments = <<>>
    /\ fetch.pc = "done" /\ fetch.comments = <<>>
           => file = fetch.before /\ fileExists = (fetch.before # DefaultData)

(* The pass is over after a fetch that ended with an HTTP error status *)
C31_Witness ==
    /\ fetch.pc = "done"
    /\ fetch.response.status >= 400
    /\ fetch.comments = <<>>

(* The reply nodes of a tree in depth-first pre-order: a reply, then   *)
(* what is under it; a container gives its children from first to      *)
(* last; anything else gives nothing                                   *)
RECURSIVE PreOrder(_)
RECURSIVE PreOrderEach(_, _)
PreOrderEach(nodes, i) ==
    IF i > Len(nodes) THEN <<>>
    ELSE PreOrder(nodes[i]) \o PreOrderEach(nodes, i + 1)

PreOrder(node) ==
    IF node.kind = "t1" THEN <<node>> \o PreOrder(node.sub[1])
    ELSE IF node.kind \in {"Listing", "list"} THEN PreOrderEach(node.sub, 1)
    ELSE <<>>

(* The comments of the reply nodes that have an id and an author who   *)
(* is not deleted, in the order of the nodes                           *)
QualifiedReplies(tree) ==
    LET nodes == SelectSeq(PreOrder(tree),
                           LAMBDA n : n.id # "" /\ n.author # "[deleted]")
    IN  [i \in 1..Len(nodes) |-> RedditComment(nodes[i])]

(* The tree get_comments flattens: the second item of the answer when  *)
(* the answer is a list of two or more items, else the whole answer    *)
FlattenedTree(data) ==
    IF data.kind = "list" /\ Len(data.sub) > 1 THEN data.sub[2] ELSE data

(* C32: flattening a reply tree returns exactly the reply nodes with a *)
(* non-empty id and a non-deleted author, each once, in depth-first    *)
(* pre-order, also those under a deleted or id-less reply; missing,    *)
(* null and empty-string 'replies' values and nodes of other kinds     *)
(* give nothing and raise nothing.                                     *)
C32_FlattenIsQualifiedPreOrder ==
    fetch.pc \in {"fetched", "done"} /\ ~FetchFailed(fetch.response)
        => /\ ~fetch.raised
           /\ fetch.comments
                  = QualifiedReplies(FlattenedTree(fetch.response.data))

(* A recorded reply under a deleted reply, next to a reply without an  *)
(* id whose 'replies' is null and a stub of another kind               *)
C32_Witness ==
    /\ fetch.pc = "fetched"
    /\ fetch.response.data
           = PostAnswer(Listing(
                 <<T1("a", "[deleted]",
                      Listing(<<T1("b", "spammer", Marker("absent")),
                                More>>)),
                   T1("", "spammer", Marker("null"))>>))
    /\ fetch.comments = <<RedditComment(T1("b", "spammer", Marker("absent")))>>

(* The 403 responses after which the loop resets the session and       *)
(* warms it up again: a 403 on an attempt that is not the last         *)
WarmupResets(outs) ==
    IF outs[1].kind = "resp" /\ outs[1].status = 403 THEN 1 ELSE 0

(* C33: no request of a _make_request call is sent while the session   *)
(* is marked not established: each one comes after a warm-up made      *)
(* since the last reset. A warm-up whose visit fails is not made       *)
(* again (one warm-up for the call when it starts unestablished, one   *)
(* per reset), it still leaves the session marked established, and the *)
(* request is sent all the same.                                       *)
C33_RequestsFollowWarmup ==
    gw.called
        => /\ gw.out.cold_requests = 0
           /\ gw.out.requests >= 1
           /\ gw.out.session_established
           /\ gw.out.warmups
                  = (IF gw.before THEN 0 ELSE 1) + WarmupResets(gw.outs)
           /\ ~gw.visit_ok => gw.out.failed_warmups = gw.out.warmups

(* A call that starts unestablished, whose warm-up visits fail, is     *)
(* answered 403, warms up again and sends its second request           *)
C33_Witness ==
    /\ gw.called /\ ~gw.before /\ ~gw.visit_ok
    /\ gw.out.failed_warmups = 2
    /\ gw.out.requests = 2
    /\ gw.out.result = "json_order"

(* C34: the time.sleep of the except branch is strictly longer than    *)
(* the scan interval, whatever interval is stored: the default of 60   *)
(* seconds and every value /interval accepts (30 seconds or more).     *)
C34_BackoffLongerThanInterval == BackoffSeconds > load_data.scan_interval

(* The worker threads that are inside _run_loop and do not leave it at *)
(* once: a stopped thread that stands at the head of the while loop    *)
(* returns within stop()'s join and is not counted                     *)
AliveWorkers ==
    {w \in Slots : Alive(w) /\ ~(th[w].pc = "while" /\ ~th[w].running)}

(* C35: whatever start and stop commands are given, at most one worker *)
(* thread is alive at a time; when a loop is started after a stop, the *)
(* thread of the loop before it has left _run_loop and stands in no    *)
(* order submission and no write of data.json.                         *)
C35_AtMostOneWorkerAlive == Cardinality(AliveWorkers) <= 1

(* C36: a save of a request handler takes nothing away from what the   *)
(* loop has persisted: every id in the ledger of data.json is still in *)
(* it after the handler's save, and total_orders is not lower.         *)
C36_HandlerWriteKeepsLedgerAndCounts ==
    [][h' # h
          => /\ Range(load_data.processed_comments)
                    \subseteq Range(load_data'.processed_comments)
             /\ load_data'.total_orders >= load_data.total_orders]_vars

(* C37: a _make_request call for an order sends the request again      *)
(* only when the service's answer to the attempt before is known: an   *)
(* attempt that ended in a transport exception (a timeout or a lost    *)
(* connection, after which the service may have taken the order) is    *)
(* not followed by another attempt, so one call places one order at    *)
(* most.                                                               *)
C37_NoResendAfterUnknownOutcome ==
    gw.called /\ gw.outs[1].kind = "exc" => gw.out.requests <= 1

(* C38: no two entries of the monitored posts in data.json name the    *)
(* same thread once get_comments has cleaned them (query string and    *)
(* trailing slashes removed): /add refuses a URL that cleans to a      *)
(* post already monitored, so a pass fetches no thread twice.          *)
C38_NoTwoPostsOfOneThread ==
    \A i, j \in 1..Len(load_data.posts) :
        i # j => clean_url(load_data.posts[i]) # clean_url(load_data.posts[j])

(* The author name an argument gives: the argument without its u/      *)
(* prefix when it has one                                              *)
NameGiven(arg) ==
    CASE arg = "u/Mod1"    -> "Mod1"
      [] arg = "u/spammer" -> "spammer"
      [] arg = "u/user1"   -> "user1"
      [] arg = "u/Ultra"   -> "Ultra"
      [] OTHER             -> arg

(* C39: when /whitelist adds the name N, given bare or with the u/     *)
(* prefix, the entry it stores is N in lower case and nothing else of  *)
(* the stored list changes; when /unwhitelist removes N, the entry it  *)
(* removes is N in lower case and every other entry stays.             *)
C39_WhitelistStoresLowerCasedName ==
    [][/\ op'.cmd = "whitelist" /\ op'.reply = "added"
            => load_data'.whitelist
                   = load_data.whitelist \cup {lower_name(NameGiven(op'.arg))}
       /\ op'.cmd = "unwhitelist" /\ op'.reply = "removed"
            => /\ lower_name(NameGiven(op'.arg)) \in load_data.whitelist
               /\ load_data'.whitelist
                      = load_data.whitelist
                            \ {lower_name(NameGiven(op'.arg))}]_vars

(* C40: in every document of data.json, from the first save on,        *)
(* orders_today and comments_downvoted are at least 0 and at most      *)
(* total_orders, however the steps of the loop, the daily resets of    *)
(* the loop and of /status and the counting of /downvote interleave.   *)
C40_CountersWithinTotal ==
    /\ 0 <= load_data.orders_today
    /\ load_data.orders_today <= load_data.total_orders
    /\ 0 <= load_data.comments_downvoted
    /\ load_data.comments_downvoted <= load_data.total_orders

(* Two orders have been counted, one of them for a comment, and the    *)
(* reset of the next day has been saved                                *)
C40_Witness ==
    /\ load_data.total_orders = 2
    /\ load_data.comments_downvoted = 1
    /\ load_data.orders_today = 0
    /\ load_data.last_reset = 2

====
